---- MODULE Spec2Model ----
(***************************************************************************)
(* A model of the expression-node demo of src/src/main.rs: the parser of   *)
(* algebraic expressions (Expr::parse, parse_with_unop, parse_binop), the  *)
(* evaluator (Expr::eval), the collection of bindings                      *)
(* (Expr::extend_bindings) and the viewer callbacks that edit a node and   *)
(* re-wire its inputs (DemoViewer::connect, DemoViewer::show_input).       *)
(*                                                                         *)
(* A text is the sequence of tokens the Rust lexer makes of it; a token is *)
(* a string.  An f64 is modelled by a fraction num/den in lowest terms     *)
(* with den >= 0; den = 0 stands for +infinity (num = 1), -infinity        *)
(* (num = -1) and NaN (num = 0).  Rounding and the sign of zero are not    *)
(* modelled.                                                               *)
(*                                                                         *)
(* The Snarl widget (egui-snarl) is not part of the sources: a wire store  *)
(* is a set of wires, connect inserts one, disconnect removes one,         *)
(* drop_inputs removes every wire into a pin.  Each callback is one step   *)
(* and sees the wires of the pin as they are when it starts.  A panic      *)
(* (unreachable!(), unwrap() on None, an index out of range) ends the      *)
(* program: panicked is set and no callback follows.                       *)
(***************************************************************************)
EXTENDS Integers, Sequences, FiniteSets, TLC

(***************************************************************************)
(* Bounds of the model.                                                    *)
(***************************************************************************)
\* longest text, in tokens, of the parser's specification
MaxLen == 5
\* the user drags a free binding's value to one of 0..MaxVal
MaxVal == 1

(***************************************************************************)
(* Tokens.                                                                 *)
(***************************************************************************)
Idents == {"a", "b", "c"}
LitInts == {"0", "1", "2", "3", "4", "8"}
LitFloats == {"1.5"}

\* the number lit.base10_parse::<f64>() gives for a literal
base10_parse(tok) ==
    CASE tok = "0" -> [num |-> 0, den |-> 1]
      [] tok = "1" -> [num |-> 1, den |-> 1]
      [] tok = "2" -> [num |-> 2, den |-> 1]
      [] tok = "3" -> [num |-> 3, den |-> 1]
      [] tok = "4" -> [num |-> 4, den |-> 1]
      [] tok = "8" -> [num |-> 8, den |-> 1]
      [] tok = "1.5" -> [num |-> 3, den |-> 2]

(***************************************************************************)
(* f64 arithmetic on fractions.                                            *)
(***************************************************************************)
F(n) == [num |-> n, den |-> 1]
NaN == [num |-> 0, den |-> 0]
Abs(n) == IF n < 0 THEN -n ELSE n
Sign(n) == IF n < 0 THEN -1 ELSE IF n = 0 THEN 0 ELSE 1

RECURSIVE Gcd(_, _)
Gcd(m, n) == IF n = 0 THEN m ELSE Gcd(n, m % n)

\* n/d in lowest terms, d >= 0
Frac(n, d) ==
    IF d = 0 THEN [num |-> Sign(n), den |-> 0]
    ELSE LET g == Gcd(Abs(n), Abs(d))
         IN  [num |-> (Sign(d) * n) \div g, den |-> Abs(d) \div g]

FNeg(x) == [num |-> -x.num, den |-> x.den]

FAdd(x, y) ==
    IF x.den = 0 \/ y.den = 0
    THEN IF x = NaN \/ y = NaN THEN NaN
         ELSE IF x.den = 0 /\ y.den = 0
              THEN IF x.num = y.num THEN x ELSE NaN
              ELSE IF x.den = 0 THEN x ELSE y
    ELSE Frac(x.num * y.den + y.num * x.den, x.den * y.den)

FSub(x, y) == FAdd(x, FNeg(y))

FMul(x, y) == Frac(x.num * y.num, x.den * y.den)

\* 1/y: 1/0 is +infinity, 1/infinity is 0, 1/NaN is NaN
FRecip(y) ==
    IF y.num = 0 THEN (IF y.den = 0 THEN NaN ELSE [num |-> 1, den |-> 0])
    ELSE IF y.num < 0 THEN [num |-> -y.den, den |-> -y.num]
    ELSE [num |-> y.den, den |-> y.num]

FDiv(x, y) == FMul(x, FRecip(y))

(***************************************************************************)
(* enum Expr, enum UnOp, enum BinOp.                                       *)
(***************************************************************************)
Var(name) == [k |-> "Var", name |-> name]
Val(v) == [k |-> "Val", v |-> v]
UnOpE(op, e) == [k |-> "UnOp", op |-> op, expr |-> e]
BinOpE(lhs, op, rhs) == [k |-> "BinOp", lhs |-> lhs, op |-> op, rhs |-> rhs]

\* a failed parse (syn::Error)
Err == [k |-> "Err"]
IsErr(e) == e.k = "Err"

\* a failed evaluation (a panic), in the shape of a number
EvalPanic == [num |-> 0, den |-> -1]

\* <UnOp as Parse>::parse and <BinOp as Parse>::parse on the first token
IsUnOpTok(tok) == tok \in {"+", "-"}
UnOpOf(tok) == IF tok = "+" THEN "Pos" ELSE "Neg"
IsBinOpTok(tok) == tok \in {"+", "-", "*", "/"}
BinOpOf(tok) ==
    CASE tok = "+" -> "Add"
      [] tok = "-" -> "Sub"
      [] tok = "*" -> "Mul"
      [] tok = "/" -> "Div"

\* position of x in sequence s (Iterator::position), 0 when absent; 1-based
Position(s, x) ==
    IF \E i \in 1..Len(s) : s[i] = x
    THEN CHOOSE i \in 1..Len(s) : s[i] = x /\ \A j \in 1..(i - 1) : s[j] # x
    ELSE 0

Contains(s, x) == \E i \in 1..Len(s) : s[i] = x

(***************************************************************************)
(* Expr::eval: EvalPanic stands for the panic of unwrap() on a name that   *)
(* is not bound, or of args[i] out of range.                               *)
(***************************************************************************)
RECURSIVE eval(_, _, _)
eval(e, bindings, args) ==
    CASE e.k = "Var" ->
            LET i == Position(bindings, e.name)
            IN  IF i = 0 \/ i > Len(args) THEN EvalPanic ELSE args[i]
      [] e.k = "Val" -> e.v
      [] e.k = "UnOp" ->
            LET x == eval(e.expr, bindings, args)
            IN  IF x = EvalPanic THEN EvalPanic
                ELSE IF e.op = "Pos" THEN x ELSE FNeg(x)
      [] e.k = "BinOp" ->
            LET l == eval(e.lhs, bindings, args)
                r == eval(e.rhs, bindings, args)
            IN  IF l = EvalPanic \/ r = EvalPanic THEN EvalPanic
                ELSE CASE e.op = "Add" -> FAdd(l, r)
                       [] e.op = "Sub" -> FSub(l, r)
                       [] e.op = "Mul" -> FMul(l, r)
                       [] e.op = "Div" -> FDiv(l, r)

(***************************************************************************)
(* Expr::extend_bindings: the names of e not yet in bindings, appended in  *)
(* the order lhs before rhs.                                               *)
(***************************************************************************)
\* mutant: a name is pushed at every occurrence
RECURSIVE extend_bindings_nodedup(_, _)
extend_bindings_nodedup(e, bindings) ==
    CASE e.k = "Var" -> Append(bindings, e.name)
      [] e.k = "Val" -> bindings
      [] e.k = "UnOp" -> extend_bindings_nodedup(e.expr, bindings)
      [] e.k = "BinOp" ->
            extend_bindings_nodedup(e.rhs, extend_bindings_nodedup(e.lhs, bindings))

\* mutant: the right operand is visited before the left one
RECURSIVE extend_bindings_rhs_first(_, _)
extend_bindings_rhs_first(e, bindings) ==
    CASE e.k = "Var" ->
            IF ~Contains(bindings, e.name) THEN Append(bindings, e.name)
            ELSE bindings
      [] e.k = "Val" -> bindings
      [] e.k = "UnOp" -> extend_bindings_rhs_first(e.expr, bindings)
      [] e.k = "BinOp" ->
            extend_bindings_rhs_first(e.lhs, extend_bindings_rhs_first(e.rhs, bindings))

RECURSIVE extend_bindings(_, _)
extend_bindings(e, bindings) ==
    CASE e.k = "Var" ->
            IF ~Contains(bindings, e.name) THEN Append(bindings, e.name)
            ELSE bindings
      [] e.k = "Val" -> bindings
      [] e.k = "UnOp" -> extend_bindings(e.expr, bindings)
      [] e.k = "BinOp" ->
            extend_bindings(e.rhs, extend_bindings(e.lhs, bindings))

(***************************************************************************)
(* Lexing (proc_macro2, called by syn::parse_str): a text whose            *)
(* parentheses do not balance has no token stream.  A parenthesised group  *)
(* is one token tree: parenthesized!(content in input) takes the tokens up *)
(* to the matching parenthesis as content and leaves the rest in input.    *)
(***************************************************************************)
RECURSIVE Depth(_, _)
Depth(toks, i) ==
    IF i = 0 THEN 0
    ELSE Depth(toks, i - 1)
         + (IF toks[i] = "(" THEN 1 ELSE IF toks[i] = ")" THEN -1 ELSE 0)

Balanced(toks) ==
    /\ \A i \in 1..Len(toks) : Depth(toks, i) >= 0
    /\ Depth(toks, Len(toks)) = 0

\* index of the parenthesis closing the group that opens at toks[1]
MatchClose(toks) == CHOOSE i \in 1..Len(toks) :
    Depth(toks, i) = 0 /\ \A j \in 1..(i - 1) : Depth(toks, j) > 0

Content(toks) == SubSeq(toks, 2, MatchClose(toks) - 1)
AfterGroup(toks) == SubSeq(toks, MatchClose(toks) + 1, Len(toks))

(***************************************************************************)
(* The parser.  Each function gets the tokens left in its buffer and gives *)
(* the tree, or Err.  Every Ok return of the code follows a successful     *)
(* input.is_empty(), so a tree is given only when the buffer is used up.   *)
(***************************************************************************)
RECURSIVE parse(_), parse_with_unop(_, _), parse_binop(_, _, _)

\* mutant: the two tiers are one, every operator folds with what is before it
parse_binop_flat(lhs, op, input) ==
    LET h == Head(input)
        Next(rhs, rest) ==
            IF rest = <<>> THEN BinOpE(lhs, op, rhs)
            ELSE IF ~IsBinOpTok(Head(rest)) THEN Err
            ELSE parse_binop(BinOpE(lhs, op, rhs), BinOpOf(Head(rest)), Tail(rest))
    IN  IF input = <<>> THEN Err
        ELSE IF h = "("
        THEN LET rhs == parse(Content(input))
             IN  IF IsErr(rhs) THEN Err ELSE Next(rhs, AfterGroup(input))
        ELSE IF h \in LitFloats \/ h \in LitInts
        THEN Next(Val(base10_parse(h)), Tail(input))
        ELSE IF h \in Idents
        THEN Next(Var(h), Tail(input))
        ELSE Err

\* mutant: every operator takes all that follows it as its right operand
parse_binop_right(lhs, op, input) ==
    LET h == Head(input)
        Next(rhs, rest) ==
            IF rest = <<>> THEN BinOpE(lhs, op, rhs)
            ELSE IF ~IsBinOpTok(Head(rest)) THEN Err
            ELSE LET r == parse_binop(rhs, BinOpOf(Head(rest)), Tail(rest))
                 IN  IF IsErr(r) THEN Err ELSE BinOpE(lhs, op, r)
    IN  IF input = <<>> THEN Err
        ELSE IF h = "("
        THEN LET rhs == parse(Content(input))
             IN  IF IsErr(rhs) THEN Err ELSE Next(rhs, AfterGroup(input))
        ELSE IF h \in LitFloats \/ h \in LitInts
        THEN Next(Val(base10_parse(h)), Tail(input))
        ELSE IF h \in Idents
        THEN Next(Var(h), Tail(input))
        ELSE Err

\* mutant: the sign is applied to the whole of what follows it
parse_with_unop_whole(op, input) ==
    LET e == parse(input)
    IN  IF IsErr(e) THEN Err ELSE UnOpE(op, e)

\* mutant: what follows a complete first operand and is no operator is
\* left in the buffer
parse_lenient(input) ==
    LET h == Head(input)
        Next(lhs, rest) ==
            IF rest = <<>> THEN lhs
            ELSE IF ~IsBinOpTok(Head(rest)) THEN lhs
            ELSE parse_binop(lhs, BinOpOf(Head(rest)), Tail(rest))
    IN  IF input = <<>> THEN Err
        ELSE IF h = "("
        THEN LET e == parse(Content(input))
             IN  IF IsErr(e) THEN Err ELSE Next(e, AfterGroup(input))
        ELSE IF h \in LitInts
        THEN Next(Val(base10_parse(h)), Tail(input))
        ELSE IF h \in Idents
        THEN Next(Var(h), Tail(input))
        ELSE IF IsUnOpTok(h)
        THEN parse_with_unop(UnOpOf(h), Tail(input))
        ELSE Err

\* Expr::parse_binop
parse_binop(lhs, op, input) ==
    LET h == Head(input)
        \* what follows the right operand rhs, with input's tokens after it
        Next(rhs, rest) ==
            IF rest = <<>> THEN BinOpE(lhs, op, rhs)
            ELSE IF ~IsBinOpTok(Head(rest)) THEN Err
            ELSE LET next_op == BinOpOf(Head(rest))
                 IN  IF op \in {"Add", "Sub"} /\ next_op \in {"Mul", "Div"}
                     THEN LET r == parse_binop(rhs, next_op, Tail(rest))
                          IN  IF IsErr(r) THEN Err ELSE BinOpE(lhs, op, r)
                     ELSE parse_binop(BinOpE(lhs, op, rhs), next_op, Tail(rest))
    IN  IF input = <<>> THEN Err
        ELSE IF h = "("
        THEN LET rhs == parse(Content(input))
             IN  IF IsErr(rhs) THEN Err ELSE Next(rhs, AfterGroup(input))
        ELSE IF h \in LitFloats \/ h \in LitInts
        THEN Next(Val(base10_parse(h)), Tail(input))
        ELSE IF h \in Idents
        THEN Next(Var(h), Tail(input))
        ELSE Err

\* Expr::parse_with_unop
parse_with_unop(op, input) ==
    LET h == Head(input)
        Next(lhs, rest) ==
            IF rest = <<>> THEN lhs
            ELSE IF ~IsBinOpTok(Head(rest)) THEN Err
            ELSE parse_binop(lhs, BinOpOf(Head(rest)), Tail(rest))
    IN  IF input = <<>> THEN Err
        ELSE IF h = "("
        THEN LET e == parse(Content(input))
             IN  IF IsErr(e) THEN Err ELSE Next(UnOpE(op, e), AfterGroup(input))
        ELSE IF h \in LitFloats \/ h \in LitInts
        THEN Next(UnOpE(op, Val(base10_parse(h))), Tail(input))
        ELSE IF h \in Idents
        THEN Next(UnOpE(op, Var(h)), Tail(input))
        ELSE Err

\* <Expr as syn::parse::Parse>::parse
parse(input) ==
    LET h == Head(input)
        Next(lhs, rest) ==
            IF rest = <<>> THEN lhs
            ELSE IF ~IsBinOpTok(Head(rest)) THEN Err
            ELSE parse_binop(lhs, BinOpOf(Head(rest)), Tail(rest))
    IN  IF input = <<>> THEN Err
        ELSE IF h = "("
        THEN LET e == parse(Content(input))
             IN  IF IsErr(e) THEN Err ELSE Next(e, AfterGroup(input))
        ELSE IF h \in LitInts
        THEN Next(Val(base10_parse(h)), Tail(input))
        ELSE IF h \in Idents
        THEN Next(Var(h), Tail(input))
        ELSE IF IsUnOpTok(h)
        THEN parse_with_unop(UnOpOf(h), Tail(input))
        ELSE Err

\* syn::parse_str::<Expr>: lex, then parse the whole stream
parse_str(text) == IF Balanced(text) THEN parse(text) ELSE Err

(***************************************************************************)
(* The graph.  Snarl<Node> holds the nodes and the wires; a wire joins the *)
(* one output of node from to input number input of node to.  The nodes    *)
(* are fixed: one string node, the expression node E the user edits and    *)
(* wires, and two expression nodes whose outputs feed it.                  *)
(***************************************************************************)
StringNodes == {"S"}
ExprNodes == {"E", "R1", "R2"}
Nodes == StringNodes \cup ExprNodes

\* the nodes whose text the user edits, and the nodes wires are drawn from
EditNodes == {"E"}
WireSources == {"S", "R1", "R2"}

\* the texts the user types into an expression node
EditTexts == {
    <<"a">>,
    <<"a", "+", "b">>, <<"b", "+", "a">>, <<"b", "+", "c">>, <<"a", "+", "c">>,
    <<"a", "+", "b", "+", "c">>, <<"a", "*", "a">>,
    <<"a", "+">>, <<"(", "b">> }

\* the texts the user types into the string node
StrTexts == { <<"a", "+", "b">>, <<"b">>, <<"a", "+">> }

VARIABLES
    text,       \* text[n]: ExprNode::text of expression node n
    expr,       \* expr[n]: ExprNode::expr
    bindings,   \* bindings[n]: ExprNode::bindings
    values,     \* values[n]: ExprNode::values
    str,        \* str[s]: the String of Node::Named
    wires,      \* the wires of the Snarl
    panicked,   \* the program has hit unreachable!() or a failed unwrap()
    pre         \* history: what the last callback was, and the state it found;
                \* in SpecSteps also where the edit is in its loop

vars == <<text, expr, bindings, values, str, wires, panicked, pre>>

Wire(from, to, input) == [from |-> from, to |-> to, input |-> input]

\* InPin::remotes of the pin (n, i), as snarl.in_pin() gives them
Remotes(W, n, i) == {w.from : w \in {x \in W : x.to = n /\ x.input = i}}

\* Snarl::connect, Snarl::disconnect, Snarl::drop_inputs
snarl_connect(W, from, n, i) == W \cup {Wire(from, n, i)}
snarl_disconnect(W, from, n, i) == W \ {Wire(from, n, i)}
snarl_drop_inputs(W, n, i) == {w \in W : ~(w.to = n /\ w.input = i)}

\* ExprNode::new
NewExprNode ==
    [text |-> <<"0">>, bindings |-> <<>>, values |-> <<>>, expr |-> Val(F(0))]

\* DemoViewer::inputs: the number of input pins of expression node n
inputs(n) == 1 + Len(bindings[n])

\* ExprNode::eval and Node::number_out; asked of a string node it panics
\* (unreachable!())
number_out(n) ==
    IF n \in ExprNodes THEN eval(expr[n], bindings[n], values[n])
    ELSE EvalPanic

\* Node::string_out of a string node; asked of an expression node it panics
string_out(n) == str[n]
string_out_panics(n) == n \notin StringNodes

Init ==
    /\ text = [n \in ExprNodes |-> NewExprNode.text]
    /\ expr = [n \in ExprNodes |-> NewExprNode.expr]
    /\ bindings = [n \in ExprNodes |-> NewExprNode.bindings]
    /\ values = [n \in ExprNodes |-> NewExprNode.values]
    /\ str = [s \in StringNodes |-> <<>>]
    /\ wires = {}
    /\ panicked = FALSE
    /\ pre = [op |-> "new"]

Panic(op) ==
    /\ panicked' = TRUE
    /\ pre' = [op |-> op]
    /\ UNCHANGED <<text, expr, bindings, values, str, wires>>

\* mutant: every request is accepted
connect_unchecked(from, n, i) ==
    /\ ~panicked
    /\ n \in ExprNodes
    /\ i \in 0..(inputs(n) - 1)
    /\ LET cleared == {w \in wires : ~(w.to = n /\ w.input = i
                                        /\ w.from \in Remotes(wires, n, i))}
       IN  /\ wires' = snarl_connect(cleared, from, n, i)
           /\ pre' = [op |-> "connect", accepted |-> TRUE,
                      from_expr |-> from \in ExprNodes, pin0 |-> i = 0,
                      replaced |-> Remotes(wires, n, i) \ {from} # {}]
    /\ UNCHANGED <<text, expr, bindings, values, str, panicked>>

(***************************************************************************)
(* DemoViewer::connect: the user drops a wire from the output of from on   *)
(* the input pin (n, i).                                                   *)
(***************************************************************************)
connect(from, n, i) ==
    /\ ~panicked
    /\ n \in ExprNodes
    /\ i \in 0..(inputs(n) - 1)
    /\ LET accepted == IF from \in ExprNodes THEN i # 0 ELSE i = 0
           \* for &remote in &to.remotes { snarl.disconnect(remote, to.id) }
           cleared == {w \in wires : ~(w.to = n /\ w.input = i
                                        /\ w.from \in Remotes(wires, n, i))}
       IN  /\ wires' = IF accepted THEN snarl_connect(cleared, from, n, i)
                       ELSE wires
           \* history: the kind of node the wire comes from, whether it
           \* goes to pin 0, and whether an accepted request took a remote off
           /\ pre' = [op |-> "connect", accepted |-> accepted,
                      from_expr |-> from \in ExprNodes, pin0 |-> i = 0,
                      replaced |-> accepted /\ Remotes(wires, n, i) \ {from} # {}]
    /\ UNCHANGED <<text, expr, bindings, values, str, panicked>>

(***************************************************************************)
(* DemoViewer::show_input on pin 0, after the text has changed: parse and, *)
(* on success, replace the tree, the bindings and the values and re-wire   *)
(* the binding pins.  Indices are the code's, from 0; pin idx + 1 belongs  *)
(* to bindings[idx].                                                       *)
(***************************************************************************)
\* values.get(name).copied().unwrap_or(0.0) on the HashMap collected from
\* zip(bindings, values): the value of the last pair whose key is name
HashGet(keys, vals, name) ==
    LET n == IF Len(keys) < Len(vals) THEN Len(keys) ELSE Len(vals)
        hits == {i \in 1..n : keys[i] = name}
    IN  IF hits = {} THEN F(0)
        ELSE vals[CHOOSE i \in hits : \A j \in hits : j <= i]

\* mutant: the values stay where they were, whatever the names
new_values_positional(old_bindings, old_values, new_bindings) ==
    [j \in 1..Len(new_bindings) |->
        IF j <= Len(old_values) THEN old_values[j] ELSE F(0)]

\* mutant: only the names bound before get a value
new_values_kept_only(old_bindings, old_values, new_bindings) ==
    LET kept == SelectSeq(new_bindings, LAMBDA name : Contains(old_bindings, name))
    IN  [j \in 1..Len(kept) |-> HashGet(old_bindings, old_values, kept[j])]

new_values(old_bindings, old_values, new_bindings) ==
    [j \in 1..Len(new_bindings) |->
        HashGet(old_bindings, old_values, new_bindings[j])]

\* new_bindings.iter().position(..): the index from 0, or -1 for None
new_idx_of(new_bindings, name) == Position(new_bindings, name) - 1

\* the input number of new_in_pin for the binding now at index new_idx
new_in_pin(new_idx) == new_idx

\* mutant: the wires of a binding whose name is gone are left in place
migrate_one_nodrop(W, old_inputs, n, old_bindings, new_bindings, idx) ==
    LET new_idx == new_idx_of(new_bindings, old_bindings[idx + 1])
    IN  IF new_idx # -1 /\ new_idx # idx
        THEN (W \ {Wire(r, n, idx + 1) : r \in old_inputs[idx + 1]})
                 \cup {Wire(r, n, new_in_pin(new_idx)) : r \in old_inputs[idx + 1]}
        ELSE W

\* mutant: a binding is moved whether or not its index has changed
migrate_one_always(W, old_inputs, n, old_bindings, new_bindings, idx) ==
    LET new_idx == new_idx_of(new_bindings, old_bindings[idx + 1])
    IN  IF new_idx = -1
        THEN snarl_drop_inputs(W, n, idx + 1)
        ELSE (W \ {Wire(r, n, idx + 1) : r \in old_inputs[idx + 1]})
                 \cup {Wire(r, n, new_in_pin(new_idx)) : r \in old_inputs[idx + 1]}

\* mutant: the pin dropped for a name that is gone is numbered like the index
migrate_one_drop_idx(W, old_inputs, n, old_bindings, new_bindings, idx) ==
    LET new_idx == new_idx_of(new_bindings, old_bindings[idx + 1])
    IN  IF new_idx = -1
        THEN snarl_drop_inputs(W, n, idx)
        ELSE IF new_idx # idx
        THEN (W \ {Wire(r, n, idx + 1) : r \in old_inputs[idx + 1]})
                 \cup {Wire(r, n, new_in_pin(new_idx)) : r \in old_inputs[idx + 1]}
        ELSE W

\* mutant: the remotes to move are read from the pin as it is by now
migrate_one_live(W, old_inputs, n, old_bindings, new_bindings, idx) ==
    LET new_idx == new_idx_of(new_bindings, old_bindings[idx + 1])
    IN  IF new_idx = -1
        THEN snarl_drop_inputs(W, n, idx + 1)
        ELSE IF new_idx # idx
        THEN (W \ {Wire(r, n, idx + 1) : r \in Remotes(W, n, idx + 1)})
                 \cup {Wire(r, n, new_in_pin(new_idx)) : r \in Remotes(W, n, idx + 1)}
        ELSE W

\* the body of the loop over old_bindings for index idx
migrate_one(W, old_inputs, n, old_bindings, new_bindings, idx) ==
    LET new_idx == new_idx_of(new_bindings, old_bindings[idx + 1])
    IN  IF new_idx = -1
        THEN snarl_drop_inputs(W, n, idx + 1)
        ELSE IF new_idx # idx
        THEN (W \ {Wire(r, n, idx + 1) : r \in old_inputs[idx + 1]})
                 \cup {Wire(r, n, new_in_pin(new_idx)) : r \in old_inputs[idx + 1]}
        ELSE W

\* the loop, from index idx on
RECURSIVE migrate(_, _, _, _, _, _)
migrate(W, old_inputs, n, old_bindings, new_bindings, idx) ==
    IF idx >= Len(old_bindings) THEN W
    ELSE migrate(migrate_one(W, old_inputs, n, old_bindings, new_bindings, idx),
                 old_inputs, n, old_bindings, new_bindings, idx + 1)

\* the elements of a finite set, one after the other
RECURSIVE SetToSeq(_)
SetToSeq(S) ==
    IF S = {} THEN <<>>
    ELSE LET x == CHOOSE y \in S : TRUE IN <<x>> \o SetToSeq(S \ {x})

Command(cmd, remote, pin) == [cmd |-> cmd, remote |-> remote, pin |-> pin]

\* the calls of Snarl the loop makes, in order, from index idx on: one
\* drop_inputs for a name that is gone, a disconnect and a connect for every
\* remote of a name whose index has changed
RECURSIVE commands(_, _, _, _)
commands(old_inputs, old_bindings, new_bindings, idx) ==
    IF idx >= Len(old_bindings) THEN <<>>
    ELSE LET new_idx == new_idx_of(new_bindings, old_bindings[idx + 1])
             remotes == SetToSeq(old_inputs[idx + 1])
             \* the two calls for the remote number k, 1 <= j <= 2 * Len(remotes)
             moves == [j \in 1..(2 * Len(remotes)) |->
                          IF j % 2 = 1
                          THEN Command("disconnect", remotes[(j + 1) \div 2], idx + 1)
                          ELSE Command("connect", remotes[j \div 2],
                                       new_in_pin(new_idx))]
             here == IF new_idx = -1
                     THEN <<Command("drop_inputs", "", idx + 1)>>
                     ELSE IF new_idx # idx THEN moves
                     ELSE <<>>
         IN  here \o commands(old_inputs, old_bindings, new_bindings, idx + 1)

\* the new bindings of a tree
bindings_of(e) == extend_bindings(e, <<>>)

\* what show_input gives its caller for pin 0 when the parse of the text
\* has given e: the drawing of the pin, for a tree and for an Err alike (the
\* Err of syn::parse_str is matched by no arm of if let Ok and is dropped)
show_input_returns(e) == "PinInfo::triangle"

\* mutant: a text that does not parse resets the tree to the default
reparse_resets(n, t) ==
    LET e == parse_str(t)
        old_bindings == bindings[n]
        new_bindings == bindings_of(e)
        old_inputs == [i \in 1..Len(old_bindings) |-> Remotes(wires, n, i)]
        \* history: t is the text that the callback before this one applied
        again == pre.op = "edit" /\ pre.ok /\ pre.node = n /\ text[n] = t
    IN  /\ text' = [text EXCEPT ![n] = t]
        /\ IF IsErr(e)
           THEN /\ pre' = [op |-> "edit", node |-> n, ok |-> FALSE,
                           returned |-> show_input_returns(e)]
                /\ expr' = [expr EXCEPT ![n] = NewExprNode.expr]
                /\ UNCHANGED <<bindings, values, wires>>
           ELSE /\ pre' = [op |-> "edit", node |-> n, ok |-> TRUE,
                           bindings |-> bindings[n], values |-> values[n],
                           wires |-> wires, again |-> again]
                /\ expr' = [expr EXCEPT ![n] = e]
                /\ bindings' = [bindings EXCEPT ![n] = new_bindings]
                /\ values' = [values EXCEPT ![n] =
                       new_values(old_bindings, values[n], new_bindings)]
                /\ wires' = migrate(wires, old_inputs, n, old_bindings,
                                    new_bindings, 0)

\* if changed { ... }: the node's text is t by now
reparse(n, t) ==
    LET e == parse_str(t)
        old_bindings == bindings[n]
        new_bindings == bindings_of(e)
        old_inputs == [i \in 1..Len(old_bindings) |-> Remotes(wires, n, i)]
        \* history: t is the text that the callback before this one applied
        again == pre.op = "edit" /\ pre.ok /\ pre.node = n /\ text[n] = t
    IN  /\ text' = [text EXCEPT ![n] = t]
        /\ IF IsErr(e)
           THEN /\ pre' = [op |-> "edit", node |-> n, ok |-> FALSE,
                           returned |-> show_input_returns(e)]
                /\ UNCHANGED <<expr, bindings, values, wires>>
           ELSE /\ pre' = [op |-> "edit", node |-> n, ok |-> TRUE,
                           bindings |-> bindings[n], values |-> values[n],
                           wires |-> wires, again |-> again]
                /\ expr' = [expr EXCEPT ![n] = e]
                /\ bindings' = [bindings EXCEPT ![n] = new_bindings]
                /\ values' = [values EXCEPT ![n] =
                       new_values(old_bindings, values[n], new_bindings)]
                /\ wires' = migrate(wires, old_inputs, n, old_bindings,
                                    new_bindings, 0)

\* pin 0 with no wire: the user types t into the text box
show_input_text_edit(n, t) ==
    /\ ~panicked
    /\ n \in ExprNodes
    /\ Remotes(wires, n, 0) = {}
    /\ reparse(n, t)
    /\ UNCHANGED <<str, panicked>>

\* mutant: the text of the remote is parsed on every render
show_input_text_remote_always(n) ==
    /\ ~panicked
    /\ n \in ExprNodes
    /\ Remotes(wires, n, 0) # {}
    /\ LET remotes == Remotes(wires, n, 0)
           remote == CHOOSE r \in remotes : TRUE
       IN  IF Cardinality(remotes) > 1 \/ string_out_panics(remote)
           THEN Panic("show_text")
           ELSE /\ reparse(n, string_out(remote))
                /\ UNCHANGED <<str, panicked>>

\* pin 0 with wires: the text follows the string of the one remote; changed
\* is false when new_string equals the text, and the callback is then over
show_input_text_remote(n) ==
    /\ ~panicked
    /\ n \in ExprNodes
    /\ Remotes(wires, n, 0) # {}
    /\ LET remotes == Remotes(wires, n, 0)
           remote == CHOOSE r \in remotes : TRUE
           new_string == string_out(remote)
       IN  IF Cardinality(remotes) > 1 \/ string_out_panics(remote)
           THEN Panic("show_text")
           ELSE IF new_string # text[n]
                THEN /\ reparse(n, new_string)
                     /\ UNCHANGED <<str, panicked>>
                ELSE /\ pre' = [op |-> "same_text", node |-> n]
                     /\ UNCHANGED <<text, expr, bindings, values, str, wires,
                                    panicked>>

(***************************************************************************)
(* DemoViewer::show_input on pin i >= 1 of node n (a pin is shown for      *)
(* every binding): with no wire the user may drag the value; with one the  *)
(* value becomes the remote's output.                                      *)
(***************************************************************************)
show_input_value_drag(n, i, v) ==
    /\ ~panicked
    /\ n \in ExprNodes
    /\ i \in 1..Len(bindings[n])
    /\ Remotes(wires, n, i) = {}
    /\ values' = [values EXCEPT ![n][i] = v]
    /\ pre' = [op |-> "drag"]
    /\ UNCHANGED <<text, expr, bindings, str, wires, panicked>>

show_input_value_remote(n, i) ==
    /\ ~panicked
    /\ n \in ExprNodes
    /\ i \in 1..Len(bindings[n])
    /\ Remotes(wires, n, i) # {}
    /\ LET remotes == Remotes(wires, n, i)
           remote == CHOOSE r \in remotes : TRUE
       IN  IF Cardinality(remotes) > 1 \/ number_out(remote) = EvalPanic
           THEN Panic("show_value")
           ELSE /\ values' = [values EXCEPT ![n][i] = number_out(remote)]
                /\ pre' = [op |-> "show_value"]
                /\ UNCHANGED <<text, expr, bindings, str, wires, panicked>>

(***************************************************************************)
(* DemoViewer::show_output on a string node: the user types t.             *)
(***************************************************************************)
show_output_string_edit(s, t) ==
    /\ ~panicked
    /\ s \in StringNodes
    /\ str' = [str EXCEPT ![s] = t]
    /\ pre' = [op |-> "string"]
    /\ UNCHANGED <<text, expr, bindings, values, wires, panicked>>

\* the binding pins a node can have: its bindings are distinct identifiers
BindingPins == 1..Cardinality(Idents)

\* The callbacks the Snarl widget makes while it draws the graph, one at a
\* time; each callback takes the pins that node n has.
Next ==
    \/ \E from \in WireSources, n \in EditNodes, i \in {0} \cup BindingPins :
          connect(from, n, i)
    \/ \E n \in EditNodes, t \in EditTexts : show_input_text_edit(n, t)
    \/ \E n \in EditNodes : show_input_text_remote(n)
    \/ \E n \in EditNodes, i \in BindingPins, v \in 0..MaxVal :
          show_input_value_drag(n, i, F(v))
    \/ \E n \in EditNodes, i \in BindingPins : show_input_value_remote(n, i)
    \/ \E s \in StringNodes, t \in StrTexts : show_output_string_edit(s, t)

Spec == Init /\ [][Next]_vars

(***************************************************************************)
(* The edit statement by statement.  show_input_text_commit is the        *)
(* callback of pin 0 down to the loop over old_bindings: the parse, the    *)
(* assignments to expr, bindings and values, and the snapshot old_inputs.  *)
(* show_input_migrate_step is one turn of the loop.  While the callback is *)
(* in the loop pre.op is "loop", pre.idx is the index of the next turn,    *)
(* pre.bindings is old_bindings and pre.wires the wires old_inputs was     *)
(* taken from; no other callback runs until the loop is over.              *)
(***************************************************************************)
InLoop == pre.op = "loop"

\* the texts the user types into an expression node in SpecSteps
StepTexts == {
    <<"a">>, <<"b", "+", "c">>, <<"a", "+", "b", "+", "c">>,
    <<"b", "+", "c", "+", "a">>, <<"b", "+", "a">>, <<"a", "+">> }

show_input_text_commit(n, t) ==
    /\ ~panicked
    /\ ~InLoop
    /\ n \in ExprNodes
    /\ Remotes(wires, n, 0) = {}
    /\ LET e == parse_str(t)
           old_bindings == bindings[n]
           new_bindings == bindings_of(e)
           again == pre.op = "edit" /\ pre.ok /\ pre.node = n /\ text[n] = t
       IN  /\ text' = [text EXCEPT ![n] = t]
           /\ IF IsErr(e)
              THEN /\ pre' = [op |-> "edit", node |-> n, ok |-> FALSE,
                              returned |-> show_input_returns(e)]
                   /\ UNCHANGED <<expr, bindings, values>>
              ELSE /\ expr' = [expr EXCEPT ![n] = e]
                   /\ bindings' = [bindings EXCEPT ![n] = new_bindings]
                   /\ values' = [values EXCEPT ![n] =
                          new_values(old_bindings, values[n], new_bindings)]
                   /\ pre' = [op |-> IF Len(old_bindings) = 0 THEN "edit"
                                     ELSE "loop",
                              node |-> n, ok |-> TRUE,
                              bindings |-> old_bindings, values |-> values[n],
                              wires |-> wires, again |-> again, idx |-> 0]
    /\ UNCHANGED <<str, wires, panicked>>

show_input_migrate_step(n) ==
    /\ InLoop
    /\ pre.node = n
    /\ LET old_inputs == [i \in 1..Len(pre.bindings) |->
                             Remotes(pre.wires, n, i)]
       IN  wires' = migrate_one(wires, old_inputs, n, pre.bindings,
                                bindings[n], pre.idx)
    /\ pre' = [pre EXCEPT !.idx = pre.idx + 1,
                          !.op = IF pre.idx + 1 >= Len(pre.bindings)
                                 THEN "edit" ELSE "loop"]
    /\ UNCHANGED <<text, expr, bindings, values, str, panicked>>

NextSteps ==
    \/ \E n \in EditNodes, t \in StepTexts : show_input_text_commit(n, t)
    \/ \E n \in EditNodes : show_input_migrate_step(n)
    \/ ~InLoop /\ \E from \in WireSources, n \in EditNodes,
                      i \in {0} \cup BindingPins : connect(from, n, i)
    \/ ~InLoop /\ \E n \in EditNodes : show_input_text_remote(n)
    \/ ~InLoop /\ \E n \in EditNodes, i \in BindingPins, v \in 0..MaxVal :
                      show_input_value_drag(n, i, F(v))
    \/ ~InLoop /\ \E n \in EditNodes, i \in BindingPins :
                      show_input_value_remote(n, i)
    \/ ~InLoop /\ \E s \in StringNodes, t \in StrTexts :
                      show_output_string_edit(s, t)

SpecSteps == Init /\ [][NextSteps]_vars

(***************************************************************************)
(* The parser's specification: one edit of a new node, its text any        *)
(* sequence of at most MaxLen tokens.                                      *)
(***************************************************************************)
ParseTokens == {"a", "b", "c", "1", "+", "*", "(", ")"}
ParseTexts == UNION {[1..k -> ParseTokens] : k \in 0..MaxLen}

NextParse == pre.op = "new" /\ \E t \in ParseTexts : show_input_text_edit("E", t)

SpecParse == Init /\ [][NextParse]_vars

(***************************************************************************)
(* The grammar's specification: one edit of a new node.  The text is any   *)
(* sequence of at most MaxLen of the tokens GrammarTokens, a chain of      *)
(* operands joined by at most MaxOps operators, such a chain with its      *)
(* first two operands in parentheses, or one of the samples.               *)
(***************************************************************************)
\* most binary operators of a chain
MaxOps == 3

\* the operator / is in the chains and the samples only
GrammarTokens == {"a", "2", "1.5", "+", "-", "*", "(", ")"}
TokenTexts == UNION {[1..k -> GrammarTokens] : k \in 0..MaxLen}

BinOpToks == {"+", "-", "*", "/"}
ChainOperands == {"a", "2"}

\* the text xs[1] ops[1] xs[2] ... ops[k] xs[k + 1]
Chain(xs, ops) ==
    [i \in 1..(2 * Len(ops) + 1) |->
        IF i % 2 = 1 THEN xs[(i + 1) \div 2] ELSE ops[i \div 2]]

\* the chain c, of two operators or more, its first two operands in a group
Grouped(c) == <<"(">> \o SubSeq(c, 1, 3) \o <<")">> \o SubSeq(c, 4, Len(c))

SampleTexts == {
    <<"2", "+", "3", "*", "4">>, <<"(", "2", "+", "3", ")", "*", "4">>,
    <<"2", "*", "3", "+", "4">>, <<"2", "-", "3", "-", "4">>,
    <<"8", "-", "3", "-", "2">>, <<"8", "/", "4", "/", "2">>,
    <<"-", "3", "+", "4">>, <<"-", "(", "3", "+", "4", ")">>,
    <<"1", "-", "2", "*", "3", "+", "4">>,
    <<"2", "*", "-", "3">>, <<"a", "+", "-", "b">>, <<"-", "a", "/", "2">>,
    <<"2", "+">>, <<"(", "1", "+", "2">>, <<"1", "2">>,
    <<"(", "1", "2", ")">> }

NextGrammar ==
    /\ pre.op = "new"
    /\ \/ \E t \in TokenTexts : show_input_text_edit("E", t)
       \/ \E k \in 0..MaxOps :
             \E xs \in [1..(k + 1) -> ChainOperands], ops \in [1..k -> BinOpToks] :
                show_input_text_edit("E", Chain(xs, ops))
       \/ \E k \in 2..MaxOps :
             \E xs \in [1..(k + 1) -> ChainOperands], ops \in [1..k -> BinOpToks] :
                show_input_text_edit("E", Grouped(Chain(xs, ops)))
       \/ \E t \in SampleTexts : show_input_text_edit("E", t)

SpecGrammar == Init /\ [][NextGrammar]_vars

(***************************************************************************)
(* What the claims speak of.                                               *)
(***************************************************************************)
\* the last callback was an edit of pre.node whose text parsed
EditedOk == pre.op = "edit" /\ pre.ok
\* the last callback was an edit of pre.node whose text did not parse
EditFailed == pre.op = "edit" /\ ~pre.ok

\* s without the repeats of its elements, first occurrences kept in order
RECURSIVE Dedup(_)
Dedup(s) ==
    IF s = <<>> THEN <<>>
    ELSE LET front == Dedup(SubSeq(s, 1, Len(s) - 1))
             last == s[Len(s)]
         IN  IF Contains(front, last) THEN front ELSE Append(front, last)

\* the variable names at the leaves of a tree, from left to right
RECURSIVE Leaves(_)
Leaves(e) ==
    CASE e.k = "Var" -> <<e.name>>
      [] e.k = "Val" -> <<>>
      [] e.k = "UnOp" -> Leaves(e.expr)
      [] e.k = "BinOp" -> Leaves(e.lhs) \o Leaves(e.rhs)

\* the identifiers of a text, from left to right
IdentsOf(t) == SelectSeq(t, LAMBDA tok : tok \in Idents)

NoDuplicates(s) == \A i, j \in 1..Len(s) : s[i] = s[j] => i = j

\* C1 (as claimed): after a successful edit, every remote that fed the pin of
\* a binding whose name is also in the new bindings feeds the pin of that name
\* in the new bindings (new index + 1), and every wire into a binding pin of
\* the node is the wire of such a remote: none is put on another pin.
C1_SurvivingKeepWires ==
    EditedOk =>
        LET n == pre.node
            \* the pin a wire into old pin i belongs on, 0 when its name is gone
            NewPin(i) == Position(bindings[n], pre.bindings[i])
        IN  /\ \A i \in 1..Len(pre.bindings) :
                  NewPin(i) # 0 =>
                      Remotes(pre.wires, n, i) \subseteq Remotes(wires, n, NewPin(i))
            /\ \A w \in wires :
                  (w.to = n /\ w \notin pre.wires) =>
                      \E i \in 1..Len(pre.bindings) :
                          /\ NewPin(i) = w.input
                          /\ w.from \in Remotes(pre.wires, n, i)

C3_FailedEditKeepsState ==
    [][(pre'.op = "edit" /\ ~pre'.ok) =>
          /\ expr' = expr /\ bindings' = bindings /\ values' = values
          /\ wires' = wires /\ str' = str
          /\ \A n \in ExprNodes : n # pre'.node => text'[n] = text[n]
          /\ IsErr(parse_str(text'[pre'.node]))]_vars

\* C3 witness: a failed edit of a node that has bindings, a value that is not
\* the default, and a wired binding pin.
C3_Witness ==
    /\ EditFailed
    /\ IsErr(parse_str(text[pre.node]))
    /\ \E i \in 1..Len(bindings[pre.node]) :
          /\ values[pre.node][i] # F(0)
          /\ \E j \in 1..Len(bindings[pre.node]) : Remotes(wires, pre.node, j) # {}

\* C4 (as claimed): after a successful edit, no wire feeds the pin of a
\* binding whose name was not in the old bindings.
C4_NewPinsUnwired ==
    EditedOk =>
        \A j \in 1..Len(bindings[pre.node]) :
            ~Contains(pre.bindings, bindings[pre.node][j]) =>
                Remotes(wires, pre.node, j) = {}

\* C5 (as claimed): every input pin of an expression node has at most one
\* wire.
C5_OneWirePerPin ==
    \A n \in ExprNodes : \A i \in 0..Len(bindings[n]) :
        Cardinality(Remotes(wires, n, i)) <= 1

\* C6 (as claimed): pin 0 of an expression node is fed only by string nodes
\* and every other pin only by expression nodes, and no callback has
\* panicked.
C6_PinsWellTyped ==
    /\ \A w \in wires :
          IF w.input = 0 THEN w.from \in StringNodes ELSE w.from \in ExprNodes
    /\ ~panicked

\* C7: the bindings and the values of a node have the same length, no name is
\* bound twice, and the bindings are the variable names of the node's tree in
\* the order of their first occurrence from left to right.
C7_BindingsMatchTree ==
    \A n \in ExprNodes :
        /\ Len(bindings[n]) = Len(values[n])
        /\ NoDuplicates(bindings[n])
        /\ bindings[n] = Dedup(Leaves(expr[n]))

\* C7 witness: a node whose tree uses a name twice and another name, after a
\* failed edit and an update of a value.
C7_Witness ==
    /\ pre.op = "drag"
    /\ IsErr(parse_str(text["E"]))
    /\ Len(bindings["E"]) >= 2
    /\ values["E"][2] = F(1)

\* C8: when a text parses, the bindings are the identifiers of the text, each
\* once, in the order of their first occurrence in the text.
C8_BindingsInTextOrder ==
    EditedOk => bindings[pre.node] = Dedup(IdentsOf(text[pre.node]))

\* C8 witness: a text in which the first name comes back after a product of
\* the two others has parsed.
C8_Witness ==
    /\ EditedOk
    /\ text["E"] = <<"c", "+", "a", "*", "c">>
    /\ bindings["E"] = <<"c", "a">>

\* C9: after a successful edit the value of a binding is the value its name
\* had before the edit, and 0.0 when the name was not bound.
C9_ValuesFollowNames ==
    EditedOk =>
        LET n == pre.node
        IN  \A j \in 1..Len(bindings[n]) :
                values[n][j] =
                    IF Contains(pre.bindings, bindings[n][j])
                    THEN pre.values[Position(pre.bindings, bindings[n][j])]
                    ELSE F(0)

\* C9 witness: a successful edit has kept a name whose value was not 0.0 at
\* another index and has brought in a new name.
C9_Witness ==
    /\ EditedOk
    /\ \E j \in 1..Len(bindings[pre.node]) :
          /\ Contains(pre.bindings, bindings[pre.node][j])
          /\ Position(pre.bindings, bindings[pre.node][j]) # j
          /\ values[pre.node][j] # F(0)
    /\ \E j \in 1..Len(bindings[pre.node]) :
          ~Contains(pre.bindings, bindings[pre.node][j])

\* C10: the evaluation of a node's tree with its bindings and values never
\* fails.
C10_EvalNeverFails ==
    \A n \in ExprNodes : eval(expr[n], bindings[n], values[n]) # EvalPanic

\* C10 witness: a node with two bound names right after a failed edit, with a
\* value that has been updated.
C10_Witness ==
    /\ EditFailed
    /\ Len(bindings[pre.node]) = 2
    /\ values[pre.node][1] = F(1)
    /\ Leaves(expr[pre.node]) # <<>>

\* C11: an edit that applies again the text the edit just before it applied
\* leaves the bindings, the values and the wires as the first edit left them,
\* and its loop over the old bindings makes no call of Snarl (no drop_inputs,
\* no disconnect, no connect).
C11_SecondEditIdempotent ==
    (EditedOk /\ pre.again) =>
        LET n == pre.node
            old_inputs == [i \in 1..Len(pre.bindings) |-> Remotes(pre.wires, n, i)]
        IN  /\ bindings[n] = pre.bindings
            /\ values[n] = pre.values
            /\ wires = pre.wires
            /\ commands(old_inputs, pre.bindings, bindings[n], 0) = <<>>

\* C11 witness: the same text has been applied twice in a row to a node with
\* two bindings, a wired binding pin and a value that is not the default.
C11_Witness ==
    /\ EditedOk
    /\ pre.again
    /\ Len(bindings[pre.node]) >= 2
    /\ \E i \in 1..Len(bindings[pre.node]) : Remotes(wires, pre.node, i) # {}
    /\ \E i \in 1..Len(bindings[pre.node]) : values[pre.node][i] # F(0)

\* the operand a literal or an identifier stands for
Leaf(tok) == IF tok \in Idents THEN Var(tok) ELSE Val(base10_parse(tok))
IsOperandTok(tok) == tok \in Idents \cup LitInts \cup LitFloats

(***************************************************************************)
(* The tree the grammar                                                    *)
(*     expr := term (('+' | '-') term)*                                    *)
(*     term := factor (('*' | '/') factor)*                                *)
(*     factor := unary | primary      unary := ('+' | '-') primary         *)
(*     primary := NUMBER | IDENT | '(' expr ')'                            *)
(* gives a text, both tiers folded from the left: an expr splits at its    *)
(* last binary + or - outside parentheses, a term at its last * or /.      *)
(***************************************************************************)
\* toks[i] is an operator of ops outside parentheses with an operand before it
BinaryAt(toks, i, ops) ==
    /\ toks[i] \in ops
    /\ Depth(toks, i) = 0
    /\ i > 1
    /\ (toks[i - 1] = ")" \/ IsOperandTok(toks[i - 1]))

\* the index of the last such operator, 0 when there is none
LastBinary(toks, ops) ==
    LET at == {i \in 1..Len(toks) : BinaryAt(toks, i, ops)}
    IN  IF at = {} THEN 0 ELSE CHOOSE i \in at : \A j \in at : j <= i

RECURSIVE grammar_expr(_), grammar_term(_), grammar_primary(_)

grammar_factor(toks) ==
    IF toks = <<>> THEN Err
    ELSE IF IsUnOpTok(Head(toks))
    THEN LET e == grammar_primary(Tail(toks))
         IN  IF IsErr(e) THEN Err ELSE UnOpE(UnOpOf(Head(toks)), e)
    ELSE grammar_primary(toks)

grammar_primary(toks) ==
    IF toks = <<>> THEN Err
    ELSE IF Len(toks) = 1
    THEN (IF IsOperandTok(toks[1]) THEN Leaf(toks[1]) ELSE Err)
    ELSE IF Head(toks) = "(" /\ MatchClose(toks) = Len(toks)
    THEN grammar_expr(Content(toks))
    ELSE Err

grammar_term(toks) ==
    LET p == LastBinary(toks, {"*", "/"})
    IN  IF p = 0 THEN grammar_factor(toks)
        ELSE LET l == grammar_term(SubSeq(toks, 1, p - 1))
                 r == grammar_factor(SubSeq(toks, p + 1, Len(toks)))
             IN  IF IsErr(l) \/ IsErr(r) THEN Err
                 ELSE BinOpE(l, BinOpOf(toks[p]), r)

grammar_expr(toks) ==
    LET p == LastBinary(toks, {"+", "-"})
    IN  IF p = 0 THEN grammar_term(toks)
        ELSE LET l == grammar_expr(SubSeq(toks, 1, p - 1))
                 r == grammar_term(SubSeq(toks, p + 1, Len(toks)))
             IN  IF IsErr(l) \/ IsErr(r) THEN Err
                 ELSE BinOpE(l, BinOpOf(toks[p]), r)

grammar_tree(toks) == IF Balanced(toks) THEN grammar_expr(toks) ELSE Err

\* C12 (as claimed): the tree of every text that parses is the tree the
\* grammar gives the text, with both tiers folded from the left.
C12_TreeIsGrammarTree ==
    EditedOk => expr[pre.node] = grammar_tree(text[pre.node])

AddToks == {"+", "-"}
MulToks == {"*", "/"}

\* C13: a text x o1 y o2 z of three operands (a first operand that is an
\* integer literal or an identifier) parses; with o1 additive and o2
\* multiplicative its tree is x o1 (y o2 z), with o1 multiplicative and o2
\* additive it is (x o1 y) o2 z; a text (x o1 y) o2 z with o1 additive and
\* o2 multiplicative parses to the tree with the group as left operand; and
\* 2+3*4 evaluates to 14, (2+3)*4 to 20, 2*3+4 to 10.
C13_ThreeOperandPrecedence ==
    pre.op = "edit" =>
        LET t == text[pre.node]
            e == expr[pre.node]
            Op(i) == BinOpOf(t[i])
            X(i) == Leaf(t[i])
            three == /\ Len(t) = 5
                     /\ IsOperandTok(t[1]) /\ IsOperandTok(t[3]) /\ IsOperandTok(t[5])
                     /\ t[2] \in BinOpToks /\ t[4] \in BinOpToks
            grouped == /\ Len(t) = 7
                       /\ t[1] = "(" /\ t[5] = ")"
                       /\ IsOperandTok(t[2]) /\ IsOperandTok(t[4]) /\ IsOperandTok(t[7])
                       /\ t[3] \in AddToks /\ t[6] \in MulToks
        IN  /\ three =>
                /\ t[1] \notin LitFloats => pre.ok
                /\ (pre.ok /\ t[2] \in AddToks /\ t[4] \in MulToks) =>
                       e = BinOpE(X(1), Op(2), BinOpE(X(3), Op(4), X(5)))
                /\ (pre.ok /\ t[2] \in MulToks /\ t[4] \in AddToks) =>
                       e = BinOpE(BinOpE(X(1), Op(2), X(3)), Op(4), X(5))
            /\ grouped =>
                /\ t[2] \notin LitFloats => pre.ok
                /\ pre.ok => e = BinOpE(BinOpE(X(2), Op(3), X(4)), Op(6), X(7))
            /\ t = <<"2", "+", "3", "*", "4">> => number_out(pre.node) = F(14)
            /\ t = <<"(", "2", "+", "3", ")", "*", "4">> => number_out(pre.node) = F(20)
            /\ t = <<"2", "*", "3", "+", "4">> => number_out(pre.node) = F(10)

\* C13 witness: 2+3*4 has parsed and the node's output is 14.
C13_Witness ==
    /\ EditedOk
    /\ text["E"] = <<"2", "+", "3", "*", "4">>
    /\ number_out("E") = F(14)

\* t is operands joined by binary operators
IsChain(t) ==
    /\ Len(t) % 2 = 1
    /\ \A i \in 1..Len(t) :
          IF i % 2 = 1 THEN IsOperandTok(t[i]) ELSE t[i] \in BinOpToks

\* the operators of the chain t are of one tier
SameTier(t) ==
    \/ \A i \in 1..Len(t) : i % 2 = 0 => t[i] \in AddToks
    \/ \A i \in 1..Len(t) : i % 2 = 0 => t[i] \in MulToks

\* the chain t folded from the left: ((x1 o1 x2) o2 x3) ...
RECURSIVE FoldLeft(_)
FoldLeft(t) ==
    IF Len(t) = 1 THEN Leaf(t[1])
    ELSE BinOpE(FoldLeft(SubSeq(t, 1, Len(t) - 2)),
                BinOpOf(t[Len(t) - 1]), Leaf(t[Len(t)]))

\* C14: a chain of operands joined by operators of one tier (its first
\* operand an integer literal or an identifier) parses, and its tree is the
\* chain folded from the left, whatever the length of the chain; 8-3-2
\* evaluates to 3 and 8/4/2 to 1.
C14_SameTierFoldsLeft ==
    pre.op = "edit" =>
        LET t == text[pre.node]
        IN  /\ (IsChain(t) /\ SameTier(t)) =>
                /\ t[1] \notin LitFloats => pre.ok
                /\ pre.ok => expr[pre.node] = FoldLeft(t)
            /\ t = <<"8", "-", "3", "-", "2">> => number_out(pre.node) = F(3)
            /\ t = <<"8", "/", "4", "/", "2">> => number_out(pre.node) = F(1)

\* C14 witness: a chain of three operators of the additive tier has parsed.
C14_Witness ==
    /\ EditedOk
    /\ text["E"] = <<"2", "-", "a", "+", "2", "-", "a">>
    /\ expr["E"].lhs.lhs.lhs = Val(F(2))

\* tree e with the sign op on its leftmost operand
RECURSIVE SignLeftmost(_, _)
SignLeftmost(e, op) ==
    IF e.k = "BinOp" THEN BinOpE(SignLeftmost(e.lhs, op), e.op, e.rhs)
    ELSE UnOpE(op, e)

\* C15: a text s x o y (s a sign, x and y operands, o a binary operator)
\* parses to (s x) o y; more generally a text s x ... with x an integer
\* literal or an identifier parses exactly when x ... does, to the tree of
\* x ... with the sign on x alone; a text s ( e ) with e a text that parses
\* parses to the sign applied to the tree of e; -3+4 evaluates to 1 and
\* -(3+4) to -7.
C15_LeadingSignBindsPrimary ==
    pre.op = "edit" =>
        LET t == text[pre.node]
            e == expr[pre.node]
            rest == Tail(t)
        IN  /\ (/\ Len(t) = 4
                /\ IsUnOpTok(t[1]) /\ IsOperandTok(t[2])
                /\ t[3] \in BinOpToks /\ IsOperandTok(t[4])) =>
                    /\ pre.ok
                    /\ e = BinOpE(UnOpE(UnOpOf(t[1]), Leaf(t[2])),
                                  BinOpOf(t[3]), Leaf(t[4]))
            /\ (/\ Len(t) >= 2
                /\ IsUnOpTok(t[1])
                /\ t[2] \in Idents \cup LitInts) =>
                    /\ pre.ok <=> ~IsErr(parse_str(rest))
                    /\ pre.ok => e = SignLeftmost(parse_str(rest), UnOpOf(t[1]))
            /\ (/\ Len(t) >= 3
                /\ IsUnOpTok(t[1])
                /\ t[2] = "(" /\ t[Len(t)] = ")"
                /\ Balanced(rest)
                /\ MatchClose(rest) = Len(rest)
                /\ ~IsErr(parse_str(Content(rest)))) =>
                    /\ pre.ok
                    /\ e = UnOpE(UnOpOf(t[1]), parse_str(Content(rest)))
            /\ t = <<"-", "3", "+", "4">> => number_out(pre.node) = F(1)
            /\ t = <<"-", "(", "3", "+", "4", ")">> => number_out(pre.node) = F(-7)

\* C15 witness: -3+4 has parsed and the node's output is 1.
C15_Witness ==
    /\ EditedOk
    /\ text["E"] = <<"-", "3", "+", "4">>
    /\ expr["E"].lhs = UnOpE("Neg", Val(F(3)))
    /\ number_out("E") = F(1)

\* C16 (as claimed): a text x o s y, with x an integer literal or an
\* identifier, o a binary operator, s a sign and y an operand, parses to
\* x o (s y).
C16_SignedRightOperand ==
    pre.op = "edit" =>
        LET t == text[pre.node]
        IN  (/\ Len(t) = 4
             /\ t[1] \in Idents \cup LitInts
             /\ t[2] \in BinOpToks
             /\ IsUnOpTok(t[3])
             /\ IsOperandTok(t[4])) =>
                /\ pre.ok
                /\ expr[pre.node] = BinOpE(Leaf(t[1]), BinOpOf(t[2]),
                                           UnOpE(UnOpOf(t[3]), Leaf(t[4])))

\* the text t with the integer literal 2 for every decimal literal
IntegerFor(t) == [i \in 1..Len(t) |-> IF t[i] \in LitFloats THEN "2" ELSE t[i]]

\* C17 (as claimed): a text parses whenever the text with an integer
\* literal in the place of each of its decimal literals parses.
C17_DecimalWhereInteger ==
    pre.op = "edit" =>
        (~IsErr(parse_str(IntegerFor(text[pre.node]))) => pre.ok)

\* the token of an operator of the tree
OpTok(op) ==
    CASE op \in {"Add", "Pos"} -> "+"
      [] op \in {"Sub", "Neg"} -> "-"
      [] op = "Mul" -> "*"
      [] op = "Div" -> "/"

OpItem(tok) == [k |-> "Op", tok |-> tok]

\* the operands and the operators of a tree, from left to right
RECURSIVE Flatten(_)
Flatten(e) ==
    CASE e.k \in {"Var", "Val"} -> <<e>>
      [] e.k = "UnOp" -> <<OpItem(OpTok(e.op))>> \o Flatten(e.expr)
      [] e.k = "BinOp" ->
            Flatten(e.lhs) \o <<OpItem(OpTok(e.op))>> \o Flatten(e.rhs)

\* the operands and the operators of a text, from left to right
Items(t) ==
    LET u == SelectSeq(t, LAMBDA tok : tok \notin {"(", ")"})
    IN  [i \in 1..Len(u) |->
            IF IsOperandTok(u[i]) THEN Leaf(u[i]) ELSE OpItem(u[i])]

\* C18: when a text parses, every token of it is in the tree: the text is
\* not empty, the operands and operators of the tree are those of the text
\* in the same order, and the text is an expr of the grammar; the empty
\* text, 2+, 1 2 and (1 2) do not parse.
C18_WholeInputConsumed ==
    pre.op = "edit" =>
        LET t == text[pre.node]
        IN  /\ pre.ok =>
                /\ t # <<>>
                /\ Flatten(expr[pre.node]) = Items(t)
                /\ ~IsErr(grammar_tree(t))
            /\ t \in {<<>>, <<"2", "+">>, <<"1", "2">>, <<"(", "1", "2", ")">>}
                   => ~pre.ok

\* C18 witness: a text with a second operand right after the first, inside
\* parentheses, has been rejected.
C18_Witness ==
    /\ EditFailed
    /\ text["E"] = <<"(", "1", "2", ")">>
    /\ expr["E"] = NewExprNode.expr

\* the kinds of parse error the claim names
ParseErrorKinds ==
    {"EmptyInput", "UnexpectedToken", "UnclosedParen", "TrailingInput"}

\* C19 (as claimed): an edit whose text does not parse gives its caller one
\* of the kinds of parse error.
C19_FailedEditReportsKind ==
    EditFailed => pre.returned \in ParseErrorKinds

\* C20 (as claimed): while wires of the old pins are still to be dropped
\* or moved by the edit's loop (the turns of the loop that are left change
\* the wire store), the bindings and the values of the node are those from
\* before the edit.
C20_CommitAfterMigration ==
    InLoop =>
        LET n == pre.node
            old_inputs == [i \in 1..Len(pre.bindings) |->
                              Remotes(pre.wires, n, i)]
        IN  migrate(wires, old_inputs, n, pre.bindings, bindings[n], pre.idx)
                    # wires
                => /\ bindings[n] = pre.bindings
                   /\ values[n] = pre.values

\* C21 (as claimed): of the calls the loop of a successful edit makes, every
\* drop_inputs comes before every disconnect and connect of a move.
C21_DropsBeforeMoves ==
    EditedOk =>
        LET n == pre.node
            old_inputs == [i \in 1..Len(pre.bindings) |->
                              Remotes(pre.wires, n, i)]
            cmds == commands(old_inputs, pre.bindings, bindings[n], 0)
        IN  \A i, j \in 1..Len(cmds) :
                (cmds[i].cmd \in {"disconnect", "connect"}
                    /\ cmds[j].cmd = "drop_inputs") => j < i

\* C22: a turn of the loop that moves a binding (its name is in the new
\* bindings at another index, both taken from the bindings before the edit
\* and the new bindings) takes from the old pin the remotes the pin had
\* before the edit and no other, and puts exactly those on the new pin; a
\* remote that an earlier turn has put on the old pin stays there.
C22_MovesFromSnapshot ==
    [][InLoop =>
          LET n == pre.node
              idx == pre.idx
              new_idx == new_idx_of(bindings[n], pre.bindings[idx + 1])
              snapshot == Remotes(pre.wires, n, idx + 1)
              new_pin == new_in_pin(new_idx)
          IN  (new_idx # -1 /\ new_idx # idx) =>
                  /\ wires \ wires' \subseteq {Wire(r, n, idx + 1) : r \in snapshot}
                  /\ wires' \ wires \subseteq {Wire(r, n, new_pin) : r \in snapshot}
                  /\ \A r \in snapshot :
                        /\ Wire(r, n, new_pin) \in wires'
                        /\ new_pin # idx + 1 => Wire(r, n, idx + 1) \notin wires'
                  /\ \A r \in Remotes(wires, n, idx + 1) \ snapshot :
                        Wire(r, n, idx + 1) \in wires']_vars

\* C22 witness: the turn just made has moved a binding from a pin on which
\* an earlier turn of the same edit had put a remote, the pin had another
\* remote before the edit, and the remote of the earlier turn is still on
\* the pin.
C22_Witness ==
    /\ pre.op \in {"loop", "edit"}
    /\ pre.ok
    /\ "idx" \in DOMAIN pre
    /\ pre.idx >= 2
    /\ LET n == pre.node
           idx == pre.idx - 1
           new_idx == new_idx_of(bindings[n], pre.bindings[idx + 1])
       IN  /\ new_idx # -1 /\ new_idx # idx /\ new_in_pin(new_idx) # idx + 1
           /\ Remotes(pre.wires, n, idx + 1) # {}
           /\ Remotes(wires, n, idx + 1) \ Remotes(pre.wires, n, idx + 1) # {}

\* C23 (as claimed): after a successful edit, the pin of every binding whose
\* name has the same index in the new bindings has the remotes it had before
\* the edit.
C23_UnchangedIndexUntouched ==
    EditedOk =>
        LET n == pre.node
        IN  \A i \in 1..Len(pre.bindings) :
                Position(bindings[n], pre.bindings[i]) = i =>
                    Remotes(wires, n, i) = Remotes(pre.wires, n, i)

\* C24: no wire feeds a pin of an expression node whose number is greater
\* than the number of the node's bindings (a pin drawn as Removed).
C24_NoWireBeyondBindings ==
    \A w \in wires :
        w.to \in ExprNodes => w.input <= Len(bindings[w.to])

\* C24 witness: a successful edit has left the node with fewer bindings, and
\* a pin beyond the new bindings that was wired before the edit is not now.
C24_Witness ==
    /\ EditedOk
    /\ Len(bindings[pre.node]) < Len(pre.bindings)
    /\ \E i \in (Len(bindings[pre.node]) + 1)..Len(pre.bindings) :
          /\ Remotes(pre.wires, pre.node, i) # {}
          /\ Remotes(wires, pre.node, i) = {}

\* C25: a request to connect the output of an expression node to pin 0 of
\* an expression node, or the output of a string node to a pin from 1 on,
\* is rejected and changes no wire and nothing else; every other request is
\* accepted, and after it the pin has the one remote of the request and
\* every other pin the wires it had.
C25_ConnectChecksAndReplaces ==
    [][pre'.op = "connect" =>
          LET rejected == \/ pre'.from_expr /\ pre'.pin0
                          \/ ~pre'.from_expr /\ ~pre'.pin0
          IN  /\ pre'.accepted <=> ~rejected
              /\ rejected => wires' = wires
              /\ ~rejected =>
                    \E from \in Nodes, n \in ExprNodes, i \in {0} \cup BindingPins :
                        /\ from \in ExprNodes <=> pre'.from_expr
                        /\ i = 0 <=> pre'.pin0
                        /\ pre'.replaced <=> Remotes(wires, n, i) \ {from} # {}
                        /\ Remotes(wires', n, i) = {from}
                        /\ \A w \in wires \cup wires' :
                              ~(w.to = n /\ w.input = i) =>
                                  (w \in wires <=> w \in wires')
              /\ UNCHANGED <<text, expr, bindings, values, str, panicked>>]_vars

\* C25 witness: an accepted request has put its remote on a pin that had
\* another remote, and the pin is left with one remote.
C25_Witness ==
    /\ pre.op = "connect"
    /\ pre.accepted
    /\ pre.replaced
    /\ \E n \in ExprNodes, i \in {0} \cup BindingPins :
          /\ i = 0 <=> pre.pin0
          /\ Cardinality(Remotes(wires, n, i)) = 1

(***************************************************************************)
\* C26: when pin 0 of an expression node has a string node as its remote, a
\* render of the pin copies the remote's string into the node's text and
\* parses and reconciles exactly when the string differs from the text; when
\* they are equal the render changes no node state and no wire, whether or
\* not the text parses.
(***************************************************************************)
C26_RemoteTextParsedOnlyWhenDifferent ==
    [][\A n \in ExprNodes :
          (/\ Remotes(wires, n, 0) # {}
           /\ Remotes(wires, n, 0) \subseteq StringNodes
           /\ pre'.op \in {"edit", "same_text"}
           /\ pre'.node = n) =>
             LET remote == CHOOSE r \in Remotes(wires, n, 0) : TRUE
                 new_string == str[remote]
                 e == parse_str(new_string)
             IN  IF new_string = text[n]
                 THEN /\ pre'.op = "same_text"
                      /\ UNCHANGED <<text, expr, bindings, values, str, wires,
                                     panicked>>
                 ELSE /\ pre'.op = "edit"
                      /\ text' = [text EXCEPT ![n] = new_string]
                      /\ pre'.ok <=> ~IsErr(e)
                      /\ ~IsErr(e) =>
                            /\ expr' = [expr EXCEPT ![n] = e]
                            /\ bindings' = [bindings EXCEPT ![n] = bindings_of(e)]
                            /\ wires' = migrate(wires,
                                  [i \in 1..Len(bindings[n]) |-> Remotes(wires, n, i)],
                                  n, bindings[n], bindings_of(e), 0)]_vars

\* C26 witness: the render found the remote's string equal to a text that
\* does not parse, after an earlier render had copied it.
C26_Witness ==
    /\ pre.op = "same_text"
    /\ Remotes(wires, pre.node, 0) # {}
    /\ \A r \in Remotes(wires, pre.node, 0) : r \in StringNodes /\ str[r] = text[pre.node]
    /\ IsErr(parse_str(text[pre.node]))
    /\ text[pre.node] # <<>>

(***************************************************************************)
\* C27: a render of a connected binding pin stores the output of the pin's
\* remote, which is computed from the remote's own stored values, in the
\* value of the pin; it never fails, so that repeated renders bring every
\* connected pin to the output of its remote.
(***************************************************************************)
C27_ConnectedPinTakesRemoteOutput ==
    pre.op = "show_value" =>
        /\ ~panicked
        /\ \E n \in ExprNodes, i \in BindingPins :
              /\ i <= Len(bindings[n])
              /\ \E r \in Remotes(wires, n, i) :
                    values[n][i] = eval(expr[r], bindings[r], values[r])

====
